---- MODULE Spec2Model ----
(***************************************************************************)
(* Model of the enhanced Navbar component                                  *)
(* (src/react_frontend/src/components/Button.jsx, lines 154-844): the      *)
(* compact-menu flag, the open submenu index, the scroll shadow, the       *)
(* focus-trap listener, the pending setTimeout callbacks and the element   *)
(* holding the focus.  One action per DOM event; each action runs every    *)
(* handler the event reaches, then the re-render and the effects.          *)
(* Indices are zero-based, as in the source.                               *)
(***************************************************************************)
EXTENDS Integers, Sequences, FiniteSets, TLC

\* ---------------------------------------------------------------- bounds
MaxLinks == 2
MaxChildren == 2
MaxTimers == 2
MaxPathLen == 4
MaxClicks == 2

\* ------------------------------------------------------------- constants
NULL == -1
ShadowThreshold == 8
Breakpoint == 700

\* The handlers look at the number of children of each top-level link only
\* (0 for a leaf link).
LinkConfigs ==
  UNION { [1..n -> 0..MaxChildren] : n \in 1..MaxLinks }

\* A link object, its children counted; a link with children has no href.
NavLink(label, href, children) ==
  [label |-> label, href |-> href, children |-> children]

\* A value of the links prop: an array of link objects, or something that
\* is no array (undefined when the prop is absent, or for instance a
\* string).
ArrayProp(items) == [kind |-> "array", items |-> items]
NoArrayProp(kind) == [kind |-> kind, items |-> <<>>]

\* The array with the child counts cfg.
LinkProp(cfg) ==
  ArrayProp([i \in 1..Len(cfg) |->
               IF cfg[i] = 0 THEN NavLink("Item", "/item", 0)
               ELSE NavLink("Menu", "", cfg[i])])

\* The fixed default of navLinks.
DefaultLinks ==
  << NavLink("Home", "/", 0),
     NavLink("About", "/about", 0),
     NavLink("Contact", "/contact", 0) >>

\* Mutant: an empty array is used as it is.
navLinks_EmptyKept(prop) ==
  IF prop.kind = "array" THEN prop.items ELSE DefaultLinks

\* navLinks = Array.isArray(links) && links.length ? links : [defaults]
navLinks(prop) ==
  IF prop.kind = "array" /\ Len(prop.items) # 0 THEN prop.items
  ELSE DefaultLinks

ChildCounts(items) == [i \in 1..Len(items) |-> items[i].children]

\* The demo page passes both optional slots (App.js 96-110).
hasSearch == TRUE
hasActions == TRUE
sticky == TRUE

ScrollValues == {0, ShadowThreshold, ShadowThreshold + 1}

Keys == {"Enter", "ArrowDown", "ArrowUp", "ArrowRight", "ArrowLeft", "Escape", "Tab"}

VARIABLES
  fault,         \* a handler or callback has thrown
  linksProp,     \* the links prop as passed: [kind, items]
  links,         \* navLinks, as child counts
  mounted,       \* the component is mounted
  mobileOpen,    \* useState(false)
  submenuOpen,   \* useState(null): NULL or a top-level index
  navShadow,     \* useState(false)
  scrollY,       \* window.scrollY
  trapListening, \* handleTrap is registered on document (capture)
  timers,        \* pending setTimeout callbacks, in firing order
  focus,         \* document.activeElement
  last,          \* the last event that changed the menu state, the focus or
                 \* the timers: <<type, key, shiftKey, target>>
  width,         \* window.innerWidth
  renderedWidth, \* window.innerWidth as the last render read it
  pathname,      \* window.location.pathname, a sequence of characters
  linkHref,      \* the href of the link under observation
  ariaCurrent,   \* that link was rendered with aria-current="page"
  button,        \* a Button: its props, what its clicks did so far
  basicOpen      \* the basic Navbar's mobileOpen, useState(false)

vars == <<fault, linksProp, links, mounted, mobileOpen, submenuOpen, navShadow, scrollY, trapListening, timers, focus, last,
          width, renderedWidth, pathname, linkHref, ariaCurrent, button, basicOpen>>

\* The location and the observed link, which change with a page load only,
\* and the Button, which no event of the Navbar touches.
page == <<pathname, linkHref, ariaCurrent, button>>

\* ------------------------------------------------------------- elements
El(kind) == <<kind, NULL, NULL>>
Top(i) == <<"top", i, NULL>>
Sub(i, j) == <<"sub", i, j>>

Body == El("body")            \* nothing focused (focused element was removed)
Outside == El("outside")      \* anything outside the <nav>
SkipLink == El("skip")
SearchInput == El("search")
SearchButton == El("searchBtn")
Hamburger == El("hamburger")
TrapStart == El("start")
TrapEnd == El("end")
ActionButton == El("action")

\* navLinks.length and link.children.length
NavLen(ls) == Len(ls)
ChildLen(ls, i) == ls[i + 1]
hasSubmenu(ls, i) == ChildLen(ls, i) > 0
ParentIdx(ls) == {i \in 0..(NavLen(ls) - 1) : hasSubmenu(ls, i)}
LeafIdx(ls) == {i \in 0..(NavLen(ls) - 1) : ~hasSubmenu(ls, i)}

\* The <ul role="menu" data-navsubmenu=i> children, rendered only for the
\* open submenu.
SubmenuItems(ls, i) == [j \in 1..ChildLen(ls, i) |-> Sub(i, j - 1)]

\* Mutant: every submenu is rendered while any submenu is open.
SubmenuRendered_AnyOpen(ls, sub, i) == hasSubmenu(ls, i) /\ sub # NULL

\* {submenuOpen === idx ? <ul role="menu" ...> : null} of a parent link
SubmenuRendered(ls, sub, i) == hasSubmenu(ls, i) /\ sub = i

RECURSIVE NavItems(_, _, _)
NavItems(ls, sub, i) ==
  IF i >= NavLen(ls) THEN <<>>
  ELSE <<Top(i)>>
       \o (IF SubmenuRendered(ls, sub, i) THEN SubmenuItems(ls, i) ELSE <<>>)
       \o NavItems(ls, sub, i + 1)

\* Document order of the elements below the <ul ref={navMenuRef}>.
MenuDom(ls, sub) ==
  <<TrapStart>> \o NavItems(ls, sub, 0) \o <<TrapEnd>>
  \o (IF hasActions THEN <<ActionButton>> ELSE <<>>)

\* Document order of the focusable elements of the <nav>.
NavDom(ls, sub) ==
  <<SkipLink>>
  \o (IF hasSearch THEN <<SearchInput, SearchButton>> ELSE <<>>)
  \o <<Hamburger>>
  \o MenuDom(ls, sub)

Range(s) == {s[k] : k \in 1..Len(s)}

\* navMenuRef.current.querySelectorAll("li > a, li > button")
IsLiAnchorOrButton(e) == e[1] \in {"top", "sub", "action"}
QueryTopLevel(ls, sub) == SelectSeq(MenuDom(ls, sub), IsLiAnchorOrButton)

\* navMenuRef.current.querySelectorAll(`[data-navsubmenu="${idx}"] li a`)
QuerySubmenu(ls, sub, idx) ==
  SelectSeq(MenuDom(ls, sub), LAMBDA e : e[1] = "sub" /\ e[2] = idx)

\* NodeList[k], zero-based; an index outside the list yields undefined
Undefined == El("undefined")
Item(list, k) == IF k >= 0 /\ k < Len(list) THEN list[k + 1] ELSE Undefined

\* querySelector(...): the first match, or null
Nil == El("null")
First(list) == IF Len(list) > 0 THEN list[1] ELSE Nil

\* Mutant: li:first-child in place of li:last-child.
Last_FirstChild(list) == IF Len(list) > 0 THEN list[1] ELSE Nil

\* querySelector(`... li:last-child a`)
Last(list) == IF Len(list) > 0 THEN list[Len(list)] ELSE Nil

\* Mutant: the modulo is forgotten.
NextIndex_NoWrap(idx, length) == idx + 1

\* (idx + 1) % length   and   idx - 1 < 0 ? length - 1 : idx - 1
NextIndex(idx, length) == (idx + 1) % length
PrevIndex(idx, length) == IF idx - 1 < 0 THEN length - 1 ELSE idx - 1

\* ------------------------------------------------------ event handlers
\* A handler sees the state of the render that created it (the closure c)
\* and adds its effects to the event's accumulated outcome acc: the queued
\* state updates, the focus() calls, the timers it schedules and
\* preventDefault().

Rendered(m, s) == [mobileOpen |-> m, submenuOpen |-> s]

EventStart(m, s, f, t) ==
  [mobileOpen |-> m, submenuOpen |-> s, focus |-> f, timers |-> t,
   prevented |-> FALSE, fault |-> FALSE]

\* el.focus(); calling it on undefined throws
FocusCall(acc, e) ==
  IF e = Undefined THEN [acc EXCEPT !.fault = TRUE]
  ELSE [acc EXCEPT !.focus = e]

\* el && el.focus()
FocusIfPresent(acc, e) == IF e = Nil THEN acc ELSE FocusCall(acc, e)

\* Mutant: the handlers do not call e.preventDefault().
PreventDefault_Forgotten(acc) == acc

\* e.preventDefault()
PreventDefault(acc) == [acc EXCEPT !.prevented = TRUE]

HamburgerTimer == <<"hamburger", NULL>>
SubmenuTimer(idx) == <<"submenu", idx>>

\* Mutant: the two Escape branches are not alternatives.
handleMainKeyDown_NoElse(acc, c, key) ==
  IF key = "Escape"
  THEN LET a == IF c.submenuOpen # NULL
                THEN [acc EXCEPT !.submenuOpen = NULL] ELSE acc
       IN IF c.mobileOpen
          THEN [a EXCEPT !.mobileOpen = FALSE,
                         !.timers = Append(@, HamburgerTimer)]
          ELSE a
  ELSE acc

\* Mutant: Escape closes a submenu but never the menu.
handleMainKeyDown_NeverCloses(acc, c, key) ==
  IF key = "Escape" /\ c.submenuOpen # NULL
  THEN [acc EXCEPT !.submenuOpen = NULL]
  ELSE acc

\* Mutant: closing the menu does not schedule the focus of the hamburger.
handleMainKeyDown_NoFocusReturn(acc, c, key) ==
  IF key = "Escape"
  THEN IF c.submenuOpen # NULL
       THEN [acc EXCEPT !.submenuOpen = NULL]
       ELSE [acc EXCEPT !.mobileOpen = FALSE]
  ELSE acc

handleMainKeyDown(acc, c, key) ==
  IF key = "Escape"
  THEN IF c.submenuOpen # NULL
       THEN [acc EXCEPT !.submenuOpen = NULL]
       ELSE IF c.mobileOpen
            THEN [acc EXCEPT !.mobileOpen = FALSE,
                             !.timers = Append(@, HamburgerTimer)]
            ELSE acc
  ELSE acc

\* Mutant: only ArrowDown opens the submenu; Enter is left to the button's
\* click.
OpensSubmenu_ArrowOnly(hasSub, key) == hasSub /\ key = "ArrowDown"

\* Mutant: the hasSubmenu test is dropped.
OpensSubmenu_AnyItem(hasSub, key) == key \in {"Enter", "ArrowDown"}

\* hasSubmenu && (e.key === "Enter" || e.key === "ArrowDown")
OpensSubmenu(hasSub, key) == hasSub /\ key \in {"Enter", "ArrowDown"}

handleNavItemKeyDown(acc, c, ls, key, idx, hasSub) ==
  IF OpensSubmenu(hasSub, key)
  THEN PreventDefault([acc EXCEPT !.submenuOpen = idx,
                                  !.timers = Append(@, SubmenuTimer(idx))])
  ELSE IF key = "ArrowUp" /\ hasSub /\ c.submenuOpen = idx
  THEN PreventDefault(
         FocusIfPresent(acc, Last(QuerySubmenu(ls, c.submenuOpen, idx))))
  ELSE IF key = "ArrowRight"
  THEN LET r == FocusCall(acc, Item(QueryTopLevel(ls, c.submenuOpen),
                                    NextIndex(idx, NavLen(ls))))
       IN IF r.fault THEN r ELSE PreventDefault(r)
  ELSE IF key = "ArrowLeft"
  THEN LET r == FocusCall(acc, Item(QueryTopLevel(ls, c.submenuOpen),
                                    PrevIndex(idx, NavLen(ls))))
       IN IF r.fault THEN r ELSE PreventDefault(r)
  ELSE IF hasSub /\ c.submenuOpen = idx /\ key \in {"Escape", "Tab"}
  THEN [acc EXCEPT !.submenuOpen = NULL]
  ELSE acc

handleSubmenuKeyDown(acc, c, ls, key, idx, subLinksLen, subIdx) ==
  IF key = "ArrowDown"
  THEN LET r == FocusCall(acc, Item(QuerySubmenu(ls, c.submenuOpen, idx),
                                    NextIndex(subIdx, subLinksLen)))
       IN IF r.fault THEN r ELSE PreventDefault(r)
  ELSE IF key = "ArrowUp"
  THEN LET r == FocusCall(acc, Item(QuerySubmenu(ls, c.submenuOpen, idx),
                                    PrevIndex(subIdx, subLinksLen)))
       IN IF r.fault THEN r ELSE PreventDefault(r)
  ELSE IF key \in {"Escape", "Tab"}
  THEN LET r == FocusCall([acc EXCEPT !.submenuOpen = NULL],
                          Item(QueryTopLevel(ls, c.submenuOpen), idx))
       IN IF r.fault THEN r ELSE PreventDefault(r)
  ELSE acc

\* Mutant: the Shift key is not looked at.
handleTrap_IgnoresShift(acc, key, shift, start, end) ==
  IF key = "Tab"
  THEN IF start = Nil \/ end = Nil THEN acc
       ELSE IF acc.focus = start
       THEN PreventDefault(FocusCall(acc, end))
       ELSE IF acc.focus = end
       THEN PreventDefault(FocusCall(acc, start))
       ELSE acc
  ELSE acc

\* The focus-trap listener; start and end are the sentinels' refs (Nil
\* when not mounted).
handleTrap(acc, key, shift, start, end) ==
  IF key = "Tab"
  THEN IF start = Nil \/ end = Nil THEN acc
       ELSE IF shift /\ acc.focus = start
       THEN PreventDefault(FocusCall(acc, end))
       ELSE IF ~shift /\ acc.focus = end
       THEN PreventDefault(FocusCall(acc, start))
       ELSE acc
  ELSE acc

\* Mutant: the hamburger only opens.
clickHamburger_OpensOnly(acc) == [acc EXCEPT !.mobileOpen = TRUE]

\* onClick of the hamburger: setMobileOpen((open) => !open)
clickHamburger(acc) == [acc EXCEPT !.mobileOpen = ~@]

\* Mutant: opening a submenu also opens the compact menu.
openSubmenu_OpensMenu(acc, idx) ==
  [acc EXCEPT !.submenuOpen = idx, !.mobileOpen = TRUE]

\* openSubmenu / closeSubmenu
openSubmenu(acc, idx) == [acc EXCEPT !.submenuOpen = idx]

\* Mutant: closing a submenu closes the menu too.
closeSubmenu_ClosesMenu(acc) ==
  [acc EXCEPT !.submenuOpen = NULL, !.mobileOpen = FALSE]

closeSubmenu(acc) == [acc EXCEPT !.submenuOpen = NULL]

\* Mutant: the click on a parent button only opens.
clickParent_OpensOnly(acc, c, idx) == openSubmenu(acc, idx)

\* onClick of a parent button
clickParent(acc, c, idx) ==
  IF c.submenuOpen = idx THEN closeSubmenu(acc) ELSE openSubmenu(acc, idx)

\* Mutant: a top-level leaf link has no onClick.
clickLeaf_NoClose(acc) == acc

\* onClick of a top-level leaf link
clickLeaf(acc) == [acc EXCEPT !.mobileOpen = FALSE]

\* onClick of a submenu link
clickSubLink(acc) == closeSubmenu([acc EXCEPT !.mobileOpen = FALSE])

\* ------------------------------------------------------------ dispatch
\* React handlers reached by a keydown on target, innermost first: the
\* element's own onKeyDown, then the <ul>'s and the <nav>'s
\* handleMainKeyDown.  The search input stops propagation.
Main1(acc, c, key) == handleMainKeyDown(acc, c, key)
Main2(acc, c, key) == handleMainKeyDown(handleMainKeyDown(acc, c, key), c, key)

ReactKeyDown(acc, c, ls, key, target) ==
  CASE target[1] = "top" ->
         Main2(handleNavItemKeyDown(acc, c, ls, key, target[2],
                                    hasSubmenu(ls, target[2])), c, key)
    [] target[1] = "sub" ->
         Main2(handleSubmenuKeyDown(acc, c, ls, key, target[2],
                                    ChildLen(ls, target[2]), target[3]), c, key)
    [] target[1] \in {"start", "end", "action"} -> Main2(acc, c, key)
    [] target[1] \in {"skip", "searchBtn", "hamburger"} -> Main1(acc, c, key)
    [] OTHER -> acc

\* The sentinels' refs: set while the component is mounted.
RefOf(isMounted, e) == IF isMounted THEN e ELSE Nil

\* The document-level capture listener runs before React's handlers.
CapturePhase(acc, listening, isMounted, key, shift) ==
  IF listening
  THEN handleTrap(acc, key, shift, RefOf(isMounted, TrapStart), RefOf(isMounted, TrapEnd))
  ELSE acc

\* ------------------------------------------------------------- render
\* After the handlers the component re-renders with the queued state; an
\* element the render removes loses the focus to the body.
AfterRender(acc, ls) ==
  IF acc.focus \in Range(NavDom(ls, acc.submenuOpen)) \cup {Body, Outside}
  THEN acc
  ELSE [acc EXCEPT !.focus = Body]

\* Mutant: the listener is registered once and never removed while mounted.
TrapEffect_NoCleanup(isMounted, open) == isMounted

\* useEffect(..., [mobileOpen]): the listener is registered exactly while
\* the component is mounted with mobileOpen true.
TrapEffect(isMounted, open) == isMounted /\ open

\* ----------------------------------------------------- default actions
\* Sequential focus navigation over the rendered elements.  The sentinels
\* are tab stops only while mobileOpen (tabIndex 0, else -1).
\* Mutant: the sentinels are never tab stops.
Tabbable_SentinelsNever(e, open) == e[1] \notin {"start", "end"}

Tabbable(e, open) == IF e[1] \in {"start", "end"} THEN open ELSE TRUE

IndexOf(s, e) == CHOOSE k \in 1..Len(s) : s[k] = e

TabTargets(ls, open, sub, from, shift) ==
  LET dom == NavDom(ls, sub)
      stops == {k \in 1..Len(dom) : Tabbable(dom[k], open)}
      Pick(ks) == IF ks = {} THEN Outside
                  ELSE IF shift THEN dom[CHOOSE k \in ks : \A l \in ks : l <= k]
                  ELSE dom[CHOOSE k \in ks : \A l \in ks : k <= l]
  IN IF from = Body
     THEN {dom[k] : k \in stops} \cup {Outside}
     ELSE IF from = Outside
     THEN {Pick(stops)}
     ELSE LET p == IndexOf(dom, from)
          IN {Pick({k \in stops : IF shift THEN k < p ELSE k > p})}

\* Enter on a link or button clicks it.
EnterDefault(acc, ls, target) ==
  IF target \notin Range(NavDom(ls, acc.submenuOpen)) THEN acc
  ELSE CASE target[1] = "top" /\ ~hasSubmenu(ls, target[2]) -> clickLeaf(acc)
         [] target[1] = "top" /\ hasSubmenu(ls, target[2]) ->
              clickParent(acc, Rendered(acc.mobileOpen, acc.submenuOpen), target[2])
         [] target[1] = "sub" -> clickSubLink(acc)
         [] target[1] = "hamburger" -> clickHamburger(acc)
         [] OTHER -> acc

\* Outcomes of the whole keydown event.
KeyDownOutcomes(m, s, f, t, ls, listening, key, shift) ==
  LET c == Rendered(m, s)
      a0 == EventStart(m, s, f, t)
      a1 == CapturePhase(a0, listening, TRUE, key, shift)
      a2 == AfterRender(ReactKeyDown(a1, c, ls, key, f), ls)
  IN IF a2.prevented THEN {a2}
     ELSE IF key = "Tab"
     THEN {[a2 EXCEPT !.focus = e] :
             e \in TabTargets(ls, a2.mobileOpen, a2.submenuOpen, a2.focus, shift)}
     ELSE IF key = "Enter"
     THEN {AfterRender(EnterDefault(a2, ls, f), ls)}
     ELSE {a2}

\* ------------------------------------------------------------ viewport
\* Every place that branches on the viewport width; TRUE means the compact
\* (hamburger) layout.
\* display: mobileOpen || window.innerWidth >= 700 ? "flex" : "none"
CompactByDisplay(w) == ~(w >= Breakpoint)
\* aria-hidden={!mobileOpen && window.innerWidth < 700}
CompactByAriaHidden(w) == w < Breakpoint
\* @media (max-width:700px) { ... }  the compact rules
CompactByMediaMax(w) == w <= Breakpoint
\* @media (min-width:700px) { ... }  the expanded rules
CompactByMediaMin(w) == ~(w >= Breakpoint)

Widths == {Breakpoint - 1, Breakpoint, Breakpoint + 1}

\* Attributes of the last render.
HamburgerAriaExpanded(open) == open
HamburgerAriaLabel(open) ==
  IF open THEN "Close navigation menu" ELSE "Open navigation menu"
MenuAriaHidden(open, w) == ~open /\ CompactByAriaHidden(w)
MenuDisplayed(open, w) == open \/ ~CompactByDisplay(w)
ParentAriaExpanded(sub, idx) == sub = idx

\* The component renders again when a state setter changed a state value;
\* only then is window.innerWidth read again.
WidthAfter(rerender) == IF rerender THEN width ELSE renderedWidth

\* ---------------------------------------------------------- active link
\* Strings are sequences over Chars.
Slash == "/"
Chars == {Slash, "a", "b"}
Root == <<Slash>>
NoHref == <<"undefined">>
Strings(maxLen) == UNION { [1..n -> Chars] : n \in 0..maxLen }
Pathnames == {p \in Strings(MaxPathLen) : Len(p) >= 1 /\ p[1] = Slash}
Hrefs == (Strings(MaxPathLen) \ {<<>>}) \cup {NoHref}

\* str.replace(/\/+$/, "")
RECURSIVE StripTrailingSlashes(_)
StripTrailingSlashes(str) ==
  IF Len(str) > 0 /\ str[Len(str)] = Slash
  THEN StripTrailingSlashes(SubSeq(str, 1, Len(str) - 1))
  ELSE str

\* str.startsWith(prefix)
StartsWith(str, prefix) ==
  Len(prefix) <= Len(str) /\ SubSeq(str, 1, Len(prefix)) = prefix

\* currentPath: the pathname without trailing slashes, "/" if that is empty
CurrentPath(loc) ==
  LET stripped == StripTrailingSlashes(loc)
  IN IF stripped = <<>> THEN Root ELSE stripped

\* linkPath: typeof link.href === "string" ? link.href.replace(...) : ""
LinkPath(href) == IF href = NoHref THEN <<>> ELSE StripTrailingSlashes(href)

\* Mutant: the test that linkPath is not empty is missing (as in the basic
\* Navbar).
isActive_NoEmptyGuard(linkPath, currentPath) ==
  \/ linkPath = currentPath
  \/ (linkPath # Root /\ StartsWith(currentPath, linkPath))

\* isActive / isSubActive
isActive(linkPath, currentPath) ==
  \/ linkPath = currentPath
  \/ (linkPath # <<>> /\ linkPath # Root /\ StartsWith(currentPath, linkPath))

\* aria-current of a link, as rendered for a location
AriaCurrentPage(href, loc) == isActive(LinkPath(href), CurrentPath(loc))

\* ----------------------------------------------------------- Button
\* Props of a Button the caller can pass: the element, disabled, loading,
\* whether an onClick is given, and the extra props (...rest) that
\* commonProps also sets.
RestNames == {"tabIndex", "aria-disabled"}
ButtonProps ==
  [as : {"button", "a"}, disabled : BOOLEAN, loading : BOOLEAN,
   hasOnClick : BOOLEAN, rest : SUBSET RestNames]

\* const isDisabled = disabled || loading
isDisabled(props) == props.disabled \/ props.loading

\* Mutant: the caller's onClick is passed on whatever isDisabled is.
ButtonOnClick_AlwaysCaller(props) ==
  IF props.hasOnClick THEN "onClick" ELSE "undefined"

\* onClick: isDisabled ? (e) => e.preventDefault() : onClick
ButtonOnClick(props) ==
  IF isDisabled(props) THEN "preventDefault"
  ELSE IF props.hasOnClick THEN "onClick" ELSE "undefined"

\* commonProps, followed by the props the element is given after the
\* spread; a rest prop replaces what stands before ...rest.  The caller's
\* own values are tabIndex 0 and aria-disabled false.
ButtonElement(props) ==
  LET common == [tabIndex |-> IF "tabIndex" \in props.rest THEN 0
                              ELSE IF isDisabled(props) THEN -1 ELSE 0,
                 ariaDisabled |-> IF "aria-disabled" \in props.rest THEN FALSE
                                  ELSE isDisabled(props),
                 onClick |-> ButtonOnClick(props)]
  IN IF props.as = "a"
     THEN [tag |-> "a", onClick |-> common.onClick,
           ariaDisabled |-> common.ariaDisabled,
           tabIndex |-> IF isDisabled(props) THEN -1 ELSE 0,
           hasHref |-> ~isDisabled(props), disabled |-> FALSE]
     ELSE [tag |-> "button", onClick |-> common.onClick,
           ariaDisabled |-> common.ariaDisabled,
           tabIndex |-> common.tabIndex,
           hasHref |-> FALSE, disabled |-> isDisabled(props)]

\* A click on the rendered element.  A <button disabled> receives no click
\* event; otherwise the handler runs and, unless it prevents it, the
\* default action of the click follows.
ButtonClickOutcome(b) ==
  LET el == ButtonElement(b.props)
  IN IF el.disabled THEN [b EXCEPT !.lastClick = "ignored"]
     ELSE IF el.onClick = "preventDefault"
     THEN [b EXCEPT !.lastClick = "prevented"]
     ELSE IF el.onClick = "onClick"
     THEN [b EXCEPT !.lastClick = "invoked", !.onClickCalls = @ + 1,
                    !.defaults = @ + 1]
     ELSE [b EXCEPT !.lastClick = "default", !.defaults = @ + 1]

NewButton(props) ==
  [props |-> props, onClickCalls |-> 0, defaults |-> 0, lastClick |-> "none"]

\* The action slot of the demo page: an enabled <button> with an onClick.
ActionButtonProps ==
  [as |-> "button", disabled |-> FALSE, loading |-> FALSE,
   hasOnClick |-> TRUE, rest |-> {}]

\* Mutant: the shadow is set at the threshold already.
onScroll_AtThreshold(y) == y >= ShadowThreshold

\* onScroll: setNavShadow(scrollY > 8)
onScroll(y) == y > ShadowThreshold

\* ------------------------------------------------------------- actions
NoTarget == El("")
MountEvent == <<"mount", "", FALSE, NoTarget>>
UnmountEvent == <<"unmount", "", FALSE, NoTarget>>
ClickEvent(target) == <<"click", "", FALSE, target>>
KeyEvent(key, shift, target) == <<"keydown", key, shift, target>>
TimeoutEvent(timer) ==
  <<"timeout", timer[1], FALSE,
    IF timer[1] = "submenu" THEN Top(timer[2]) ELSE Hamburger>>

CommitState(acc, ev) ==
  /\ mobileOpen' = acc.mobileOpen
  /\ submenuOpen' = acc.submenuOpen
  /\ focus' = acc.focus
  /\ timers' = acc.timers
  /\ fault' = (fault \/ acc.fault)
  /\ trapListening' = TrapEffect(mounted, acc.mobileOpen)
  /\ last' = IF <<acc.mobileOpen, acc.submenuOpen, acc.focus, acc.timers>>
                 = <<mobileOpen, submenuOpen, focus, timers>>
              THEN last ELSE ev
  /\ renderedWidth' = WidthAfter(acc.mobileOpen # mobileOpen
                                  \/ acc.submenuOpen # submenuOpen)
  /\ UNCHANGED <<links, linksProp, mounted, navShadow, scrollY, width, page>>

\* An event of the enhanced Navbar alone: the basic Navbar is not involved.
Commit(acc, ev) ==
  /\ CommitState(acc, ev)
  /\ UNCHANGED basicOpen

\* The state after the first render and its effects, in a window of width
\* w at location loc, for an observed link with the given href.
Mounted(w, loc, href) ==
  /\ mounted = TRUE
  /\ mobileOpen = FALSE
  /\ submenuOpen = NULL
  /\ scrollY = 0
  /\ navShadow = (sticky /\ onScroll(0))
  /\ trapListening = TrapEffect(TRUE, FALSE)
  /\ timers = <<>>
  /\ focus = Outside
  /\ fault = FALSE
  /\ last = MountEvent
  /\ width = w
  /\ renderedWidth = w
  /\ pathname = loc
  /\ linkHref = href
  /\ ariaCurrent = AriaCurrentPage(href, loc)
  /\ basicOpen = FALSE

\* The page at the root location in a window narrow enough to show the
\* hamburger.
\* The component is given the links prop.
Props(prop) ==
  /\ linksProp = prop
  /\ links = ChildCounts(navLinks(prop))

Init ==
  /\ \E cfg \in LinkConfigs : Props(LinkProp(cfg))
  /\ button = NewButton(ActionButtonProps)
  /\ Mounted(Breakpoint - 1, Root, Root)

Here == EventStart(mobileOpen, submenuOpen, focus, timers)

KeyOutcomes(key, shift) ==
  KeyDownOutcomes(mobileOpen, submenuOpen, focus, timers, links,
                  trapListening, key, shift)

KeyDown(key, shift) ==
  /\ mounted
  /\ \E acc \in KeyOutcomes(key, shift) :
       /\ Len(acc.timers) <= MaxTimers
       /\ Commit(acc, KeyEvent(key, shift, focus))

\* A click focuses the clicked element, runs its onClick and re-renders.
HamburgerClickOutcome(acc) ==
  AfterRender(clickHamburger(FocusCall(acc, Hamburger)), links)

ParentClickOutcome(acc, idx) ==
  AfterRender(clickParent(FocusCall(acc, Top(idx)),
                          Rendered(acc.mobileOpen, acc.submenuOpen), idx), links)

HamburgerClick ==
  /\ mounted
  /\ Commit(HamburgerClickOutcome(Here), ClickEvent(Hamburger))

ParentClick(idx) ==
  /\ mounted
  /\ idx \in ParentIdx(links)
  /\ Commit(ParentClickOutcome(Here, idx), ClickEvent(Top(idx)))

LeafClickOutcome(acc, idx) ==
  AfterRender(clickLeaf(FocusCall(acc, Top(idx))), links)

SubLinkClickOutcome(acc, idx, subIdx) ==
  AfterRender(clickSubLink(FocusCall(acc, Sub(idx, subIdx))), links)

LeafClick(idx) ==
  /\ mounted
  /\ idx \in LeafIdx(links)
  /\ Commit(LeafClickOutcome(Here, idx), ClickEvent(Top(idx)))

SubLinkClick(idx, subIdx) ==
  /\ mounted
  /\ Sub(idx, subIdx) \in Range(MenuDom(links, submenuOpen))
  /\ Commit(SubLinkClickOutcome(Here, idx, subIdx), ClickEvent(Sub(idx, subIdx)))

\* The user clicks into the search field: it takes the focus.
SearchClick ==
  /\ mounted
  /\ hasSearch
  /\ Commit(FocusCall(Here, SearchInput), ClickEvent(SearchInput))

\* The user clicks somewhere outside the <nav>.
OutsideClick ==
  /\ mounted
  /\ Commit(FocusCall(Here, Outside), ClickEvent(Outside))

\* The window scrolls to y; the listener is registered while the component
\* is mounted with sticky set.
Scroll(y) ==
  /\ mounted
  /\ y # scrollY
  /\ scrollY' = y
  /\ navShadow' = IF sticky THEN onScroll(y) ELSE navShadow
  /\ renderedWidth' = WidthAfter(navShadow' # navShadow)
  /\ UNCHANGED <<basicOpen, fault, links, linksProp, mounted, mobileOpen, submenuOpen, trapListening, timers, focus, last,
                 width, page>>

\* Mutant: the callback focuses the child without looking it up again.
TimerCallback_Blind(acc, ls, isMounted, timer) ==
  IF timer[1] = "submenu"
  THEN FocusCall(acc, Sub(timer[2], 0))
  ELSE FocusIfPresent(acc, RefOf(isMounted, Hamburger))

\* A setTimeout callback fires; equal delays fire in scheduling order.
\* navMenuRef.current and hamburgerRef.current are null after unmount.
TimerCallback(acc, ls, isMounted, timer) ==
  IF timer[1] = "submenu"
  THEN IF isMounted
       THEN FocusIfPresent(acc, First(QuerySubmenu(ls, acc.submenuOpen, timer[2])))
       ELSE acc
  ELSE FocusIfPresent(acc, RefOf(isMounted, Hamburger))

TimerFire ==
  /\ timers # <<>>
  /\ Commit(TimerCallback([Here EXCEPT !.timers = Tail(@)], links, mounted, Head(timers)),
            TimeoutEvent(Head(timers)))

Unmount ==
  /\ mounted
  /\ mounted' = FALSE
  /\ trapListening' = TrapEffect(FALSE, mobileOpen)
  /\ focus' = IF focus \in {Body, Outside} THEN focus ELSE Body
  /\ last' = UnmountEvent
  /\ UNCHANGED <<basicOpen, fault, links, linksProp, mobileOpen, submenuOpen, navShadow, scrollY, timers,
                 width, renderedWidth, page>>

\* The window is resized.  The component registers no resize listener, so
\* nothing renders.
Resize(w) ==
  /\ w # width
  /\ width' = w
  /\ UNCHANGED <<basicOpen, fault, links, linksProp, mounted, mobileOpen, submenuOpen, navShadow, scrollY, trapListening,
                 timers, focus, last, renderedWidth, page>>

\* A page load at another location: the component mounts anew.
Navigate(loc) ==
  /\ loc # pathname
  /\ mounted' = TRUE
  /\ mobileOpen' = FALSE
  /\ submenuOpen' = NULL
  /\ scrollY' = 0
  /\ navShadow' = (sticky /\ onScroll(0))
  /\ trapListening' = TrapEffect(TRUE, FALSE)
  /\ timers' = <<>>
  /\ focus' = Outside
  /\ fault' = FALSE
  /\ last' = MountEvent
  /\ renderedWidth' = width
  /\ pathname' = loc
  /\ ariaCurrent' = AriaCurrentPage(linkHref, loc)
  /\ UNCHANGED <<basicOpen, links, linksProp, width, linkHref, button>>

\* The indices a top-level link can have: of the links passed or of the
\* default links.
LinkIdx ==
  0..((IF MaxLinks > Len(DefaultLinks) THEN MaxLinks ELSE Len(DefaultLinks)) - 1)

Next ==
  \/ \E key \in Keys, shift \in BOOLEAN : KeyDown(key, shift)
  \/ HamburgerClick
  \/ \E idx \in LinkIdx : ParentClick(idx)
  \/ \E idx \in LinkIdx : LeafClick(idx)
  \/ \E idx \in LinkIdx, subIdx \in 0..(MaxChildren - 1) : SubLinkClick(idx, subIdx)
  \/ SearchClick
  \/ OutsideClick
  \/ \E y \in ScrollValues : Scroll(y)
  \/ TimerFire
  \/ Unmount

Spec == Init /\ [][Next]_vars

\* The same component in a window that is resized.
ViewportLinks == <<1, 0>>

InitViewport ==
  /\ Props(LinkProp(ViewportLinks))
  /\ button = NewButton(ActionButtonProps)
  /\ \E w \in Widths : Mounted(w, Root, Root)

NextViewport ==
  \/ Next
  \/ \E w \in Widths : Resize(w)

SpecViewport == InitViewport /\ [][NextViewport]_vars

\* The active-link computation over locations and hrefs.
ActiveLinks == <<0>>

InitActive ==
  /\ Props(LinkProp(ActiveLinks))
  /\ button = NewButton(ActionButtonProps)
  /\ \E loc \in Pathnames, href \in Hrefs : Mounted(Breakpoint - 1, loc, href)

NextActive == \E loc \in Pathnames : Navigate(loc)

SpecActive == InitActive /\ [][NextActive]_vars

\* The component with any value of the links prop, the missing and the
\* empty ones included.
LinksProps ==
  {NoArrayProp("undefined"), NoArrayProp("string"), ArrayProp(<<>>)}
  \cup {LinkProp(cfg) : cfg \in {c \in LinkConfigs : Len(c) = 1}}

InitLinks ==
  /\ \E prop \in LinksProps : Props(prop)
  /\ button = NewButton(ActionButtonProps)
  /\ Mounted(Breakpoint - 1, Root, Root)

SpecLinks == InitLinks /\ [][Next]_vars

\* A Button on its own: it is clicked, and its parent renders it again
\* with disabled or loading changed.
ButtonClick ==
  /\ button.defaults < MaxClicks
  /\ button' = ButtonClickOutcome(button)
  /\ UNCHANGED <<basicOpen, fault, linksProp, links, mounted, mobileOpen, submenuOpen, navShadow, scrollY,
                 trapListening, timers, focus, last, width, renderedWidth,
                 pathname, linkHref, ariaCurrent>>

ButtonRender(disabled, loading) ==
  /\ <<disabled, loading>> # <<button.props.disabled, button.props.loading>>
  /\ button' = [button EXCEPT !.props.disabled = disabled,
                               !.props.loading = loading]
  /\ UNCHANGED <<basicOpen, fault, linksProp, links, mounted, mobileOpen, submenuOpen, navShadow, scrollY,
                 trapListening, timers, focus, last, width, renderedWidth,
                 pathname, linkHref, ariaCurrent>>

InitButton ==
  /\ Props(LinkProp(ActiveLinks))
  /\ Mounted(Breakpoint - 1, Root, Root)
  /\ \E props \in ButtonProps : button = NewButton(props)

NextButton ==
  \/ ButtonClick
  \/ \E disabled, loading \in BOOLEAN : ButtonRender(disabled, loading)

SpecButton == InitButton /\ [][NextButton]_vars

\* ----------------------------------------------------- basic Navbar
\* The basic Navbar (Navbar.jsx) keeps one state, mobileOpen, here
\* basicOpen.  It renders every link as a plain <a> and has one keydown
\* handler, on the menu list.
\* const toggleMenu = () => setMobileOpen((open) => !open)
toggleMenu(open) == ~open

\* handleKeyDown of the <ul>: Escape while mobileOpen closes the menu
handleKeyDown(open, key) == IF key = "Escape" /\ open THEN FALSE ELSE open

\* Mutant: a click on a link leaves the menu as it is.
handleLinkClick_NoClose(open) == open

\* handleLinkClick: setMobileOpen(false)
handleLinkClick(open) == FALSE

\* Link lists in which no link has children, the default list among them.
LeafOnlyProps ==
  {NoArrayProp("undefined")}
  \cup {LinkProp(cfg) : cfg \in {c \in LinkConfigs : \A i \in DOMAIN c : c[i] = 0}}

BasicKeys == {"Escape", "Tab"}

\* Both components are mounted with the same links and get the same
\* events.
InitBasic ==
  /\ \E prop \in LeafOnlyProps : Props(prop)
  /\ button = NewButton(ActionButtonProps)
  /\ Mounted(Breakpoint - 1, Root, Root)

\* A click on the hamburger of each component.
BothHamburgerClick ==
  /\ mounted
  /\ CommitState(HamburgerClickOutcome(Here), ClickEvent(Hamburger))
  /\ basicOpen' = toggleMenu(basicOpen)

\* A click on the link idx of each component.
BothLinkClick(idx) ==
  /\ mounted
  /\ idx \in LeafIdx(links)
  /\ CommitState(LeafClickOutcome(Here, idx), ClickEvent(Top(idx)))
  /\ basicOpen' = handleLinkClick(basicOpen)

\* A key pressed on the focused element of each component.  Escape is
\* pressed inside the menu list only; the basic Navbar's handler runs for
\* a key pressed inside the list.
BothKeyDown(key, shift) ==
  /\ mounted
  /\ key = "Escape" => focus \in Range(MenuDom(links, submenuOpen))
  /\ \E acc \in KeyOutcomes(key, shift) :
       /\ Len(acc.timers) <= MaxTimers
       /\ CommitState(acc, KeyEvent(key, shift, focus))
  /\ basicOpen' = IF focus \in Range(MenuDom(links, submenuOpen))
                  THEN handleKeyDown(basicOpen, key)
                  ELSE basicOpen

NextBasic ==
  \/ BothHamburgerClick
  \/ \E idx \in LinkIdx : BothLinkClick(idx)
  \/ \E key \in BasicKeys, shift \in BOOLEAN : BothKeyDown(key, shift)
  \/ TimerFire

SpecBasic == InitBasic /\ [][NextBasic]_vars

\* ------------------------------------------------------------- claims
InNav == focus \in Range(NavDom(links, submenuOpen))
Shifts == BOOLEAN
TopIdx == 0..(NavLen(links) - 1)

\* C1 (as stated): with a submenu open and mobileOpen true, one Escape
\* pressed on any element of the navigation leaves no submenu open and
\* mobileOpen true.
C1_EscapeAnywhere ==
  (mounted /\ mobileOpen /\ submenuOpen # NULL /\ InNav) =>
    \A shift \in Shifts : \A acc \in KeyOutcomes("Escape", shift) :
      acc.submenuOpen = NULL /\ acc.mobileOpen

\* C1 (amended): with a submenu open and mobileOpen true, one Escape
\* pressed on any element of the navigation other than the search input
\* closes the submenu and leaves mobileOpen true; pressed in the search
\* input it changes nothing; in no case does it close the whole menu.
C1_EscapePrecedence ==
  (mounted /\ mobileOpen /\ submenuOpen # NULL /\ InNav) =>
    \A shift \in Shifts : \A acc \in KeyOutcomes("Escape", shift) :
      /\ acc.mobileOpen
      /\ focus # SearchInput => acc.submenuOpen = NULL
      /\ focus = SearchInput => acc = Here

\* C1 witness: an Escape pressed on a navigation element took
\* Open-Submenu to Open-NoSubmenu (from Open-NoSubmenu it would have
\* closed the menu).
C1_Witness ==
  /\ last[1] = "keydown" /\ last[2] = "Escape"
  /\ last[4][1] \in {"top", "sub", "start", "end", "hamburger"}
  /\ mobileOpen /\ submenuOpen = NULL

\* C2 (as stated): ArrowRight on top-level item i focuses top-level item
\* (i+1) mod n, whatever submenu is open.
C2_ArrowRightWraps ==
  \A i \in TopIdx :
    (mounted /\ focus = Top(i)) =>
      \A shift \in Shifts : \A acc \in KeyOutcomes("ArrowRight", shift) :
        acc.focus = Top((i + 1) % NavLen(links))

\* C3 (as stated): ArrowLeft on top-level item i focuses top-level item
\* (i-1+n) mod n, whatever submenu is open.
C3_ArrowLeftWraps ==
  \A i \in TopIdx :
    (mounted /\ focus = Top(i)) =>
      \A shift \in Shifts : \A acc \in KeyOutcomes("ArrowLeft", shift) :
        acc.focus = Top((i - 1 + NavLen(links)) % NavLen(links))

\* C4: on child j of the open submenu i of length m, ArrowDown focuses
\* child (j+1) mod m and ArrowUp child (j-1+m) mod m; neither changes
\* submenuOpen (or mobileOpen) nor throws.
C4_SubmenuWrap ==
  \A i \in TopIdx : \A j \in 0..(MaxChildren - 1) :
    (mounted /\ focus = Sub(i, j)) =>
      LET m == ChildLen(links, i)
      IN \A shift \in Shifts :
           /\ \A acc \in KeyOutcomes("ArrowDown", shift) :
                /\ acc.focus = Sub(i, (j + 1) % m)
                /\ acc.submenuOpen = submenuOpen /\ submenuOpen = i
                /\ acc.mobileOpen = mobileOpen /\ ~acc.fault
           /\ \A acc \in KeyOutcomes("ArrowUp", shift) :
                /\ acc.focus = Sub(i, (j - 1 + m) % m)
                /\ acc.submenuOpen = submenuOpen /\ submenuOpen = i
                /\ acc.mobileOpen = mobileOpen /\ ~acc.fault

\* C4 witness: ArrowDown on the last child of a submenu of at least two
\* children has wrapped the focus to child 0.
C4_Witness ==
  \E i \in TopIdx :
    /\ ChildLen(links, i) >= 2
    /\ last = KeyEvent("ArrowDown", FALSE, Sub(i, ChildLen(links, i) - 1))
    /\ focus = Sub(i, 0)
    /\ submenuOpen = i

\* C5: the deferred focus move scheduled by opening submenu i, whenever
\* it fires, throws nothing, leaves the focus alone unless the component
\* is mounted with submenu i open, and then focuses child 0 of submenu i.
C5_DeferredFocus ==
  \A k \in 1..Len(timers) :
    timers[k][1] = "submenu" =>
      LET i == timers[k][2]
          acc == TimerCallback(Here, links, mounted, timers[k])
      IN /\ ~acc.fault
         /\ acc.mobileOpen = mobileOpen /\ acc.submenuOpen = submenuOpen
         /\ IF mounted /\ submenuOpen = i
            THEN acc.focus = Sub(i, 0)
            ELSE acc.focus = focus

\* C5 witness: the callback for submenu i fired after the submenu had
\* been closed again, and the focus is on no submenu child.
C5_Witness ==
  \E i \in TopIdx :
    /\ last = TimeoutEvent(SubmenuTimer(i))
    /\ mounted /\ submenuOpen # i
    /\ focus[1] # "sub" /\ ~fault

\* C6: a Tab press while mobileOpen: from the last sentinel without
\* Shift the focus ends on the first sentinel, from the first sentinel
\* with Shift on the last one, the default being suppressed; in every
\* other case, and whenever a sentinel's ref is null, the guard changes
\* nothing and throws nothing.
C6_FocusTrap ==
  \A shift \in Shifts :
    /\ (mounted /\ mobileOpen) =>
         LET acc == CapturePhase(Here, trapListening, mounted, "Tab", shift)
         IN /\ ~acc.fault
            /\ IF focus = TrapEnd /\ ~shift
               THEN /\ acc.focus = TrapStart /\ acc.prevented
                    /\ \A r \in KeyOutcomes("Tab", shift) : r.focus = TrapStart
               ELSE IF focus = TrapStart /\ shift
               THEN /\ acc.focus = TrapEnd /\ acc.prevented
                    /\ \A r \in KeyOutcomes("Tab", shift) : r.focus = TrapEnd
               ELSE acc = Here
    /\ \A start \in {Nil, TrapStart}, end \in {Nil, TrapEnd} :
         (start = Nil \/ end = Nil) =>
           handleTrap(Here, "Tab", shift, start, end) = Here

\* C6 witness: Tab on the last sentinel of the open menu has moved the
\* focus to the first sentinel.
C6_Witness ==
  /\ last = KeyEvent("Tab", FALSE, TrapEnd)
  /\ mobileOpen /\ focus = TrapStart

\* C7: the guard's listener is registered exactly while the mounted
\* component has mobileOpen true; with mobileOpen false a Tab press is
\* not intercepted: the guard neither moves the focus nor suppresses the
\* default, and the press never carries the focus from one sentinel to
\* the other.
C7_GuardOffWhenClosed ==
  /\ trapListening = (mounted /\ mobileOpen)
  /\ (mounted /\ ~mobileOpen) =>
       \A shift \in Shifts :
         /\ CapturePhase(Here, trapListening, mounted, "Tab", shift) = Here
         /\ \A r \in KeyOutcomes("Tab", shift) :
              /\ focus = TrapEnd => r.focus # TrapStart
              /\ focus = TrapStart => r.focus # TrapEnd
              /\ focus \in {TrapStart, TrapEnd} => ~r.prevented

\* C7 witness: with the menu closed again, a Tab pressed on the last
\* sentinel passed through to the next tab stop.
C7_Witness ==
  /\ last = KeyEvent("Tab", FALSE, TrapEnd)
  /\ mounted /\ ~mobileOpen /\ ~trapListening
  /\ focus \notin {TrapStart, TrapEnd}

\* Opening submenu i: a click on parent i whose submenu is not open, or
\* Enter or ArrowDown pressed on parent i.
OpenSubmenuOutcomes(i) ==
  (IF submenuOpen # i THEN {ParentClickOutcome(Here, i)} ELSE {})
  \cup (IF focus = Top(i)
         THEN UNION {KeyOutcomes(key, shift) :
                       key \in {"Enter", "ArrowDown"}, shift \in Shifts}
         ELSE {})

\* C8 (as stated): opening submenu i results in submenuOpen = i and
\* mobileOpen = true.
C8_OpenSubmenuOpensMenu ==
  \A i \in ParentIdx(links) :
    mounted => \A acc \in OpenSubmenuOutcomes(i) :
      acc.submenuOpen = i /\ acc.mobileOpen

\* C8 (amended): opening submenu i results in submenuOpen = i and leaves
\* mobileOpen as it was.
C8_OpenSubmenuKeepsMenu ==
  \A i \in ParentIdx(links) :
    mounted => \A acc \in OpenSubmenuOutcomes(i) :
      acc.submenuOpen = i /\ acc.mobileOpen = mobileOpen

\* C8 witness: submenu i was opened by a click or a key press on parent i
\* while the compact menu was closed, and the menu is still closed.
C8_Witness ==
  \E i \in ParentIdx(links) :
    /\ last[1] \in {"click", "keydown"} /\ last[4] = Top(i)
    /\ last[2] \in {"", "Enter", "ArrowDown"}
    /\ submenuOpen = i /\ ~mobileOpen

\* C9 (as stated): a submenu is open only while mobileOpen is true.
C9_SubmenuOnlyWhileOpen == submenuOpen # NULL => mobileOpen

\* C9 (amended): mobileOpen is a boolean and submenuOpen is none or the
\* index of a parent link, in any combination.
C9_MenuStateValid ==
  /\ mobileOpen \in BOOLEAN
  /\ submenuOpen \in {NULL} \cup ParentIdx(links)

\* C9 witness: a submenu is open while mobileOpen is false.
C9_Witness ==
  mounted /\ ~mobileOpen /\ submenuOpen \in ParentIdx(links)

\* C10 (as stated): the hamburger click takes Closed to Open-NoSubmenu
\* and every open state to Closed (mobileOpen false, no submenu open).
C10_ToggleCloses ==
  mounted =>
    LET acc == HamburgerClickOutcome(Here)
    IN /\ (~mobileOpen /\ submenuOpen = NULL) =>
            (acc.mobileOpen /\ acc.submenuOpen = NULL)
       /\ mobileOpen => (~acc.mobileOpen /\ acc.submenuOpen = NULL)

\* C10 (amended): the hamburger click negates mobileOpen and leaves
\* submenuOpen as it was, and two consecutive clicks restore both.
C10_ToggleFlips ==
  mounted =>
    LET acc == HamburgerClickOutcome(Here)
        twice == HamburgerClickOutcome(acc)
    IN /\ acc.mobileOpen = ~mobileOpen
       /\ acc.submenuOpen = submenuOpen
       /\ twice.mobileOpen = mobileOpen
       /\ twice.submenuOpen = submenuOpen

\* C10 witness: a hamburger click has closed the menu and a submenu is
\* still open.
C10_Witness ==
  /\ last = ClickEvent(Hamburger)
  /\ ~mobileOpen /\ submenuOpen # NULL

\* C11: activating a leaf link, by a click or by Enter on it, leaves the
\* compact menu closed whatever the state was: a top-level link without
\* children sets mobileOpen to false, and a link of the open submenu sets
\* mobileOpen to false and closes the submenu, so that from the open menu
\* with submenu 0 open a child of 0 leads to the closed state.
C11_LeafActivationCloses ==
  mounted =>
    /\ \A i \in LeafIdx(links) :
         /\ ~LeafClickOutcome(Here, i).mobileOpen
         /\ LeafClickOutcome(Here, i).submenuOpen = submenuOpen
         /\ focus = Top(i) =>
              \A shift \in Shifts : \A acc \in KeyOutcomes("Enter", shift) :
                ~acc.mobileOpen /\ acc.submenuOpen = submenuOpen
    /\ \A i \in TopIdx : \A j \in 0..(MaxChildren - 1) :
         Sub(i, j) \in Range(MenuDom(links, submenuOpen)) =>
           /\ ~SubLinkClickOutcome(Here, i, j).mobileOpen
           /\ SubLinkClickOutcome(Here, i, j).submenuOpen = NULL
           /\ focus = Sub(i, j) =>
                \A shift \in Shifts : \A acc \in KeyOutcomes("Enter", shift) :
                  ~acc.mobileOpen /\ acc.submenuOpen = NULL

\* Enter on a top-level leaf link changed the state, which it does only by
\* closing the open menu.
C11_Witness ==
  /\ mounted /\ ~mobileOpen
  /\ \E i \in LeafIdx(links) : last = KeyEvent("Enter", FALSE, Top(i))

\* The parents whose rendered aria-expanded is true for the open-submenu
\* state sub.
ExpandedParents(sub) == {i \in ParentIdx(links) : ParentAriaExpanded(sub, i)}

\* C12: at most one submenu is open at a time.  submenuOpen is none or
\* the index of one parent link; a parent link reports aria-expanded true
\* exactly when its index is submenuOpen, and exactly then are its
\* children in the document; opening submenu k, whatever submenu was open
\* before, leaves k as the only open one.
C12_SingleSubmenu ==
  mounted =>
    /\ ExpandedParents(submenuOpen) =
         (IF submenuOpen = NULL THEN {} ELSE {submenuOpen})
    /\ \A i \in ParentIdx(links) :
         ParentAriaExpanded(submenuOpen, i) <=>
           (Sub(i, 0) \in Range(MenuDom(links, submenuOpen)))
    /\ \A k \in ParentIdx(links) : \A acc \in OpenSubmenuOutcomes(k) :
         /\ ExpandedParents(acc.submenuOpen) = {k}
         /\ \A i \in ParentIdx(links) :
              (Sub(i, 0) \in Range(MenuDom(links, acc.submenuOpen))) <=> i = k

\* C12 witness: submenu k was opened by a click while the deferred focus
\* of another submenu j, opened by key before, is still pending.
C12_Witness ==
  \E j, k \in ParentIdx(links) :
    /\ j # k
    /\ mounted /\ submenuOpen = k /\ last = ClickEvent(Top(k))
    /\ SubmenuTimer(j) \in Range(timers)
    /\ ExpandedParents(submenuOpen) = {k}

C14_ParentKeyOpens ==
  /\ \A i \in ParentIdx(links) :
       (mounted /\ focus = Top(i)) =>
         \A key \in {"Enter", "ArrowDown"} : \A shift \in Shifts :
           \A acc \in KeyOutcomes(key, shift) :
             /\ acc.submenuOpen = i
             /\ acc.prevented
             /\ acc.focus = Top(i)
             /\ acc.timers = Append(timers, SubmenuTimer(i))
  /\ \A i \in ParentIdx(links) :
       (mounted /\ timers # <<>> /\ Head(timers) = SubmenuTimer(i)
          /\ submenuOpen = i) =>
         TimerCallback([Here EXCEPT !.timers = Tail(@)], links, mounted,
                       Head(timers)).focus = Sub(i, 0)

\* C14 witness: Enter was pressed on parent i while its submenu was open
\* (only the timer changed) and the submenu is still open.
C14_Witness ==
  \E i \in ParentIdx(links) :
    /\ mounted /\ submenuOpen = i /\ focus = Top(i)
    /\ last = KeyEvent("Enter", FALSE, Top(i))
    /\ timers = <<SubmenuTimer(i), SubmenuTimer(i)>>

\* C15: Escape or Tab, with or without Shift, pressed on child j of the
\* open submenu i closes the submenu, leaves mobileOpen unchanged and
\* moves the focus to the top-level parent item i, for every parent i and
\* every child j; nothing else takes the focus afterwards.
C15_ChildEscapeOrTab ==
  \A i \in ParentIdx(links) : \A j \in 0..(ChildLen(links, i) - 1) :
    (mounted /\ focus = Sub(i, j) /\ submenuOpen = i) =>
      \A key \in {"Escape", "Tab"} : \A shift \in Shifts :
        \A acc \in KeyOutcomes(key, shift) :
          /\ acc.submenuOpen = NULL
          /\ acc.mobileOpen = mobileOpen
          /\ acc.focus = Top(i)
          /\ acc.timers = timers
          /\ ~acc.fault

\* C15 witness: Shift+Tab on the last child of submenu i of the open menu
\* closed the submenu and put the focus on parent i.
C15_Witness ==
  \E i \in ParentIdx(links) :
    /\ mounted /\ mobileOpen /\ submenuOpen = NULL /\ focus = Top(i)
    /\ last = KeyEvent("Tab", TRUE, Sub(i, ChildLen(links, i) - 1))

\* The menu list's aria-hidden as the last render left it in the document.
RenderedAriaHidden == MenuAriaHidden(mobileOpen, renderedWidth)

\* C16 (as stated): the layout mode of the rendered navigation follows the
\* window: in every state, also right after a resize, the mode the last
\* render used is the classification of the current viewport width.
C16_ModeFollowsResize ==
  mounted => CompactByAriaHidden(renderedWidth) = CompactByAriaHidden(width)

\* C17 (as stated): every place that branches on the viewport width calls
\* it compact exactly when width < 700.
C17_SameThreshold ==
  /\ CompactByDisplay(width) <=> width < Breakpoint
  /\ CompactByAriaHidden(width) <=> width < Breakpoint
  /\ CompactByMediaMax(width) <=> width < Breakpoint
  /\ CompactByMediaMin(width) <=> width < Breakpoint

\* C18 (as stated): in every reachable state the hamburger's aria-expanded
\* equals mobileOpen, its aria-label is "Close navigation menu" when
\* mobileOpen is true and "Open navigation menu" otherwise, and the menu
\* list's aria-hidden is true exactly when mobileOpen is false and the
\* viewport is compact.
C18_AriaMirrorsState ==
  mounted =>
    /\ HamburgerAriaExpanded(mobileOpen) = mobileOpen
    /\ mobileOpen => HamburgerAriaLabel(mobileOpen) = "Close navigation menu"
    /\ ~mobileOpen => HamburgerAriaLabel(mobileOpen) = "Open navigation menu"
    /\ RenderedAriaHidden = (~mobileOpen /\ width < Breakpoint)

\* C19 (as stated): a link whose href is "/" is marked active exactly
\* when the normalized current path is "/".
C19_RootActiveOnRootOnly ==
  (mounted /\ linkHref = Root) =>
    (ariaCurrent <=> CurrentPath(pathname) = Root)

\* C20: a link whose href is not the root (something is left of it once
\* its trailing slashes are removed) is marked active if and only if,
\* trailing slashes removed from both, the current path equals the href
\* or starts with it; a link without href is never marked active.
C20_PrefixMatch ==
  mounted =>
    /\ (linkHref # NoHref /\ StripTrailingSlashes(linkHref) # <<>>) =>
         (ariaCurrent <=>
            \/ StripTrailingSlashes(pathname) = StripTrailingSlashes(linkHref)
            \/ StartsWith(StripTrailingSlashes(pathname),
                          StripTrailingSlashes(linkHref)))
    /\ linkHref = NoHref => ~ariaCurrent

\* C20 witness: at the location "/a/b" the link with href "/a/" is
\* marked active by the prefix match.
C20_Witness ==
  /\ mounted /\ ariaCurrent
  /\ linkHref = <<Slash, "a", Slash>>
  /\ pathname = <<Slash, "a", Slash, "b">>

\* C21: when the links prop is absent, no array or an empty array, the
\* navigation renders exactly the links Home (/), About (/about) and
\* Contact (/contact), in this order; a non-empty array is rendered as it
\* is, with none of the defaults added.
C21_LinksFallback ==
  LET expected ==
        IF linksProp.kind = "array" /\ linksProp.items # <<>>
        THEN linksProp.items
        ELSE << [label |-> "Home", href |-> "/", children |-> 0],
                [label |-> "About", href |-> "/about", children |-> 0],
                [label |-> "Contact", href |-> "/contact", children |-> 0] >>
  IN /\ navLinks(linksProp) = expected
     /\ links = ChildCounts(expected)
     /\ mounted =>
          {e \in Range(MenuDom(links, submenuOpen)) : e[1] = "top"}
            = {Top(i) : i \in 0..(Len(expected) - 1)}

\* C21 witness: without a links prop the third default link, Contact, was
\* clicked.
C21_Witness ==
  /\ linksProp.kind = "undefined"
  /\ mounted /\ last = ClickEvent(Top(2)) /\ focus = Top(2)
  /\ links = <<0, 0, 0>>

\* C22: while a Button is disabled or loading, a click on it never calls
\* the caller's onClick and no default action of the click follows, be it
\* rendered as <button> or as <a>, with or without extra props; on the <a>
\* the click's default is prevented by the handler, and the <a> has no
\* href.
C22_DisabledNeverInvokes ==
  isDisabled(button.props) =>
    LET r == ButtonClickOutcome(button)
    IN /\ r.onClickCalls = button.onClickCalls
       /\ r.defaults = button.defaults
       /\ r.lastClick \in {"ignored", "prevented"}
       /\ button.props.as = "a" =>
            r.lastClick = "prevented" /\ ~ButtonElement(button.props).hasHref

\* C22 witness: a loading <a> Button with an onClick and both extra props
\* was clicked; the click was prevented and onClick has never run.
C22_Witness ==
  /\ button.props.as = "a" /\ button.props.loading /\ button.props.hasOnClick
  /\ button.props.rest = RestNames
  /\ button.lastClick = "prevented"
  /\ button.onClickCalls = 0

\* The elements from the first to the last sentinel, both included, in the
\* document rendered for the open submenu sub.
TrapRange(sub) == Range(<<TrapStart>> \o NavItems(links, sub, 0) \o <<TrapEnd>>)

FocusKeys == {"Tab", "ArrowLeft", "ArrowRight", "ArrowUp", "ArrowDown"}

\* C23: while mobileOpen is true and the focus is on an element from the
\* first to the last sentinel (a sentinel, a top-level item or a child of
\* the open submenu), no Tab, Shift+Tab or arrow key press moves the focus
\* out of that range, and the focus ends on an element of the document as
\* rendered after the key press, never on a removed one.
C23_FocusStaysInMenu ==
  (mounted /\ mobileOpen /\ focus \in TrapRange(submenuOpen)) =>
    \A key \in FocusKeys : \A shift \in Shifts :
      \A acc \in KeyOutcomes(key, shift) :
        /\ acc.focus \in TrapRange(acc.submenuOpen)
        /\ acc.mobileOpen

\* C23 witness: Tab on the last top-level item of the open menu has moved
\* the focus to the last sentinel.
C23_Witness ==
  /\ mounted /\ mobileOpen /\ focus = TrapEnd
  /\ last = KeyEvent("Tab", FALSE, Top(NavLen(links) - 1))

\* A key press in the state acc left by an earlier event.
KeysFrom(acc, key, shift) ==
  KeyDownOutcomes(acc.mobileOpen, acc.submenuOpen, acc.focus, acc.timers, links,
                  TrapEffect(mounted, acc.mobileOpen), key, shift)

Closed(acc) == ~acc.mobileOpen /\ acc.submenuOpen = NULL

\* At most two Escape presses, with or without Shift, end in Closed.
EscapeTwiceCloses(acc) ==
  \/ Closed(acc)
  \/ \A s1 \in Shifts : \A a1 \in KeysFrom(acc, "Escape", s1) :
       \/ Closed(a1)
       \/ \A s2 \in Shifts : \A a2 \in KeysFrom(a1, "Escape", s2) : Closed(a2)

\* The user can get to Closed with at most n Tab or Shift+Tab presses,
\* wherever each of them takes the focus, and then at most two Escapes.
RECURSIVE CanClose(_, _)
CanClose(acc, n) ==
  \/ EscapeTwiceCloses(acc)
  \/ /\ n > 0
     /\ \E shift \in Shifts :
          \A a \in KeysFrom(acc, "Tab", shift) : CanClose(a, n - 1)

C25_ArrowUpOnParent ==
  \A i \in TopIdx :
    (mounted /\ focus = Top(i)) =>
      \A shift \in Shifts : \A acc \in KeyOutcomes("ArrowUp", shift) :
        IF submenuOpen = i
        THEN /\ acc.focus = Sub(i, ChildLen(links, i) - 1)
             /\ acc.submenuOpen = i /\ acc.mobileOpen = mobileOpen
             /\ acc.timers = timers /\ ~acc.fault
        ELSE acc = Here

\* C25 witness: ArrowUp on parent i has moved the focus to the last of its
\* two children.
C25_Witness ==
  \E i \in ParentIdx(links) :
    /\ ChildLen(links, i) = 2
    /\ mounted /\ submenuOpen = i /\ focus = Sub(i, 1)
    /\ last = KeyEvent("ArrowUp", FALSE, Top(i))

\* C26: closeSubmenu sets submenuOpen to none and leaves mobileOpen as it
\* is, and changes nothing when no submenu is open; so do Escape and Tab,
\* with or without Shift, pressed on top-level item i while submenu i is
\* open.
C26_CloseSubmenuFrame ==
  /\ closeSubmenu(Here).submenuOpen = NULL
  /\ closeSubmenu(Here) = [Here EXCEPT !.submenuOpen = NULL]
  /\ submenuOpen = NULL => closeSubmenu(Here) = Here
  /\ \A i \in ParentIdx(links) :
       (mounted /\ focus = Top(i) /\ submenuOpen = i) =>
         \A key \in {"Escape", "Tab"} : \A shift \in Shifts :
           \A acc \in KeyOutcomes(key, shift) :
             acc.submenuOpen = NULL /\ acc.mobileOpen = mobileOpen

\* C26 witness: Escape on the only parent link has changed the state and
\* left the menu open, so it has closed that parent's submenu.
C26_Witness ==
  \E i \in TopIdx :
    /\ ParentIdx(links) = {i}
    /\ mounted /\ mobileOpen /\ submenuOpen = NULL /\ focus = Top(i)
    /\ last = KeyEvent("Escape", TRUE, Top(i))

\* C27: with sticky set, the shadow flag of the mounted component is
\* scrollY > 8 before and after every step; a step that scrolls the
\* window changes neither mobileOpen nor submenuOpen (nor the focus or
\* the pending callbacks), and a step that changes mobileOpen or
\* submenuOpen leaves the shadow flag as it is.
C27_ScrollIndependent ==
  [][ /\ (mounted /\ sticky) => navShadow = (scrollY > 8)
      /\ (mounted' /\ sticky) => navShadow' = (scrollY' > 8)
      /\ scrollY' # scrollY =>
           /\ mobileOpen' = mobileOpen /\ submenuOpen' = submenuOpen
           /\ focus' = focus /\ timers' = timers
      /\ (mobileOpen' # mobileOpen \/ submenuOpen' # submenuOpen) =>
           navShadow' = navShadow /\ scrollY' = scrollY ]_vars

\* C27 witness: the page was scrolled past the threshold and the open menu
\* with an open submenu was left alone.
C27_Witness ==
  /\ mounted /\ navShadow /\ scrollY = ShadowThreshold + 1
  /\ mobileOpen /\ submenuOpen # NULL
  /\ last[1] = "click"

\* C28: a click on parent item i closes its submenu when submenuOpen = i
\* and otherwise sets submenuOpen to i, whatever other submenu was open;
\* a second click on the same parent then leaves no submenu open, which
\* restores the state before the two clicks when no submenu was open; no
\* such click changes mobileOpen.
C28_ParentClickToggles ==
  \A i \in ParentIdx(links) :
    mounted =>
      LET a1 == ParentClickOutcome(Here, i)
          a2 == ParentClickOutcome(a1, i)
      IN /\ a1.submenuOpen = (IF submenuOpen = i THEN NULL ELSE i)
         /\ a1.mobileOpen = mobileOpen
         /\ a2.submenuOpen = (IF submenuOpen = i THEN i ELSE NULL)
         /\ a2.mobileOpen = mobileOpen
         /\ submenuOpen = NULL =>
              <<a2.mobileOpen, a2.submenuOpen>> = <<mobileOpen, submenuOpen>>

\* C28 witness: a click on parent i of the open menu has left no submenu
\* open, so it has closed submenu i.
C28_Witness ==
  \E i \in ParentIdx(links) :
    /\ mounted /\ mobileOpen /\ submenuOpen = NULL /\ focus = Top(i)
    /\ last = ClickEvent(Top(i))
    /\ timers = <<>>

\* C29 (as stated): after a leaf link is activated, by a click on a
\* top-level link without children or on a child of the open submenu, no
\* submenu is open, whatever submenu was open before.
C29_LeafLeavesNoSubmenu ==
  mounted =>
    /\ \A i \in LeafIdx(links) : LeafClickOutcome(Here, i).submenuOpen = NULL
    /\ \A i \in ParentIdx(links) : \A j \in 0..(ChildLen(links, i) - 1) :
         submenuOpen = i => SubLinkClickOutcome(Here, i, j).submenuOpen = NULL

\* C30: for links without children, after every sequence of hamburger
\* clicks, leaf-link clicks and Escape presses inside the menu list, the
\* enhanced Navbar's mobileOpen equals the basic Navbar's mobileOpen, and
\* the enhanced Navbar's submenuOpen is null.
C30_BasicEquivalent ==
  mounted => (mobileOpen = basicOpen /\ submenuOpen = NULL)

\* An Escape pressed on a link of the open menu list closed both menus.
C30_Witness ==
  /\ last[1] = "keydown" /\ last[2] = "Escape" /\ last[4][1] = "top"
  /\ ~mobileOpen /\ ~basicOpen
  /\ HamburgerTimer \in Range(timers)

====
